---- MODULE Spec2Model ----
(***************************************************************************)
(* VEO3-Generator: the SOP questionnaire (src/src/sop_questionnaire.py),   *)
(* the prompt translator (src/src/sop_translator.py) and the generation    *)
(* client (src/src/veo3_client.py).                                        *)
(*                                                                         *)
(* Texts are TLA+ strings; a formatted text (an f-string) is the           *)
(* concatenation of its pieces, an integer formatted with ToString.  A     *)
(* prompt is kept as the sequence of the lines that "\n".join glues, which *)
(* is the same text as long as no field holds a line break.                *)
(*                                                                         *)
(* Specifications:                                                         *)
(*   SpecValidate   SOPQuestionnaire.validate                              *)
(*   SpecTranslate  SOPPromptTranslator.translate_questionnaire/_segment   *)
(*   SpecRoundTrip  SOPQuestionnaire.to_dict / to_json / from_json         *)
(*   SpecPrompt     VEO3Client.validate_prompt                             *)
(*   Spec           VEO3Client.generate_video and its polling              *)
(*   SpecTerminating  Spec with every HTTP call returning or failing       *)
(*   SpecDriver     example_product_demo, the example driver               *)
(***************************************************************************)
EXTENDS Integers, Sequences, FiniteSets, TLC

VARIABLES
    phase,      \* which operation acted last ("init" before any)
    q,          \* the SOPQuestionnaire in memory
    vresult,    \* what validate() returned: <<is_valid, reason>>
    requests,   \* what translate_questionnaire returned (a list of requests)
    terror,     \* the ValueError text translate_questionnaire raised, or None
    tscall,     \* a direct call of translate_segment: its arguments and prompt
    record,     \* the persisted record: to_dict() written by to_json
    loaded,     \* the questionnaire from_json built from the record
    prompt,     \* the argument of validate_prompt
    presult,    \* what validate_prompt returned
    pc,         \* generate_video: where the call stands
    request,    \* the VideoGenerationRequest the current call was given
    reply,      \* the last reply of the remote service
    posts,      \* submissions (POST) made by the current call
    polls,      \* status fetches (GET operations/<id>) made by the current call
    url,        \* the video URL the current call obtained, or None
    downloads,  \* artifact downloads attempted by the current call
    fetched,    \* how the download ended: "ok", "failed", or None before it
    response,   \* the VideoGenerationResponse returned, or None
    raised,     \* whether the call raised to its caller
    calls,      \* generate_video calls started so far
    config,     \* the VEO3Config the client was built with
    driver      \* the example driver: where it stands and what it collected

qvars == <<q, vresult, requests, terror, tscall, record, loaded>>
pvars == <<prompt, presult>>
cvars == <<pc, request, reply, posts, polls, url, downloads, fetched,
           response, raised, calls, config, driver>>
vars == <<phase, q, vresult, requests, terror, tscall, record, loaded,
          prompt, presult, pc, request, reply, posts, polls, url, downloads, fetched,
          response, raised, calls, config, driver>>

(***************************************************************************)
(* Python values                                                           *)
(***************************************************************************)

\* Python's None where a text is expected: a value apart from every text a
\* field can hold.
None == "<None>"

\* Python's None where an object is expected.
NoObject == [none |-> TRUE]

\* bool(x) of an Optional[str]: None and "" are false.
Truthy(s) == s # None /\ s # ""

(***************************************************************************)
(* Questionnaire model                                                     *)
(***************************************************************************)

\* The enum members and their values.
VideoStyle == {"PROFESSIONAL", "CASUAL", "EDUCATIONAL", "PROMOTIONAL"}

StyleValue(e) ==
    CASE e = "PROFESSIONAL" -> "professional"
      [] e = "CASUAL" -> "casual"
      [] e = "EDUCATIONAL" -> "educational"
      [] e = "PROMOTIONAL" -> "promotional"

PlatformTarget ==
    {"INSTAGRAM", "TIKTOK", "YOUTUBE_SHORTS", "FACEBOOK", "LINKEDIN", "TWITTER"}

PlatformValue(e) ==
    CASE e = "INSTAGRAM" -> "instagram"
      [] e = "TIKTOK" -> "tiktok"
      [] e = "YOUTUBE_SHORTS" -> "youtube_shorts"
      [] e = "FACEBOOK" -> "facebook"
      [] e = "LINKEDIN" -> "linkedin"
      [] e = "TWITTER" -> "twitter"

\* SOPSegment(...) with the dataclass defaults for what is not given.
DefaultDuration == 8

SOPSegment(n, title, description, key_action, visual_focus) ==
    [segment_number |-> n,
     title |-> title,
     description |-> description,
     key_action |-> key_action,
     visual_focus |-> visual_focus,
     duration |-> DefaultDuration,
     text_overlay |-> None,
     voiceover_script |-> None,
     props_needed |-> <<>>,
     location |-> None]

\* SOPQuestionnaire(...) with the dataclass defaults for what is not given.
SOPQuestionnaire(project_title, sop_purpose, target_audience, video_style) ==
    [project_title |-> project_title,
     sop_purpose |-> sop_purpose,
     target_audience |-> target_audience,
     video_style |-> video_style,
     brand_colors |-> <<>>,
     brand_fonts |-> <<>>,
     target_platforms |-> <<>>,
     presenter_type |-> "none",
     presenter_description |-> None,
     presenter_clothing |-> None,
     primary_location |-> "",
     location_description |-> "",
     lighting_preference |-> "bright_professional",
     segments |-> <<>>,
     company_name |-> None,
     logo_placement |-> None,
     intro_outro_needed |-> TRUE,
     music_style |-> None,
     voiceover_needed |-> FALSE,
     voiceover_language |-> "english",
     consistency_mode |-> "strict"]

\* The most segments validate() accepts.
MaxSegments == 6

\* Mutants of SegmentsOverMax: the limit off by one, either way.
SegmentsOverMaxEarly(segs) == Len(segs) >= MaxSegments

SegmentsOverMaxLate(segs) == Len(segs) > MaxSegments + 1

SegmentsOverMax(segs) == Len(segs) > MaxSegments

\* Mutant of ValidateSegments: the reason names the position in the list,
\* not the segment's own number.
RECURSIVE ValidateSegmentsByPosition(_, _)
ValidateSegmentsByPosition(segs, i) ==
    IF i > Len(segs) THEN <<TRUE, None>>
    ELSE LET s == segs[i]
             n == ToString(i)
         IN  IF ~Truthy(s.title)
                 THEN <<FALSE, "Segment " \o n \o " missing title">>
             ELSE IF ~Truthy(s.description)
                 THEN <<FALSE, "Segment " \o n \o " missing description">>
             ELSE IF ~Truthy(s.key_action)
                 THEN <<FALSE, "Segment " \o n \o " missing key action">>
             ELSE ValidateSegmentsByPosition(segs, i + 1)

\* The loop of validate() over the segments, from the i-th on.
RECURSIVE ValidateSegments(_, _)
ValidateSegments(segs, i) ==
    IF i > Len(segs) THEN <<TRUE, None>>
    ELSE LET s == segs[i]
             n == ToString(s.segment_number)
         IN  IF ~Truthy(s.title)
                 THEN <<FALSE, "Segment " \o n \o " missing title">>
             ELSE IF ~Truthy(s.description)
                 THEN <<FALSE, "Segment " \o n \o " missing description">>
             ELSE IF ~Truthy(s.key_action)
                 THEN <<FALSE, "Segment " \o n \o " missing key action">>
             ELSE ValidateSegments(segs, i + 1)

\* SOPQuestionnaire.validate(): (is_valid, reason).
validate(qq) ==
    IF ~Truthy(qq.project_title) THEN <<FALSE, "Project title is required">>
    ELSE IF ~Truthy(qq.sop_purpose) THEN <<FALSE, "SOP purpose is required">>
    ELSE IF ~Truthy(qq.target_audience)
        THEN <<FALSE, "Target audience is required">>
    ELSE IF Len(qq.segments) = 0
        THEN <<FALSE, "At least one segment is required">>
    ELSE IF SegmentsOverMax(qq.segments)
        THEN <<FALSE, "Maximum 6 segments allowed (48 seconds total)">>
    ELSE ValidateSegments(qq.segments, 1)

(***************************************************************************)
(* Serialization.  A dictionary is a function from its keys; the record    *)
(* to_json writes and from_json reads back is the dictionary to_dict       *)
(* returns (json.dump and json.load keep texts, integers, booleans, None   *)
(* and lists as they are).                                                 *)
(***************************************************************************)

\* data.get(key, default)
Get(data, key, default) == IF key \in DOMAIN data THEN data[key] ELSE default

\* VideoStyle(value) and PlatformTarget(value): the member with that value.
\* The lookup raises ValueError for a text that is no member's value; to_dict
\* writes members' values only.
VideoStyleOf(value) == CHOOSE e \in VideoStyle : StyleValue(e) = value

PlatformTargetOf(value) == CHOOSE e \in PlatformTarget : PlatformValue(e) = value

\* One segment of to_dict()'s "segments".
SegmentDict(seg) ==
    [segment_number |-> seg.segment_number,
     title |-> seg.title,
     description |-> seg.description,
     key_action |-> seg.key_action,
     visual_focus |-> seg.visual_focus,
     duration |-> seg.duration,
     text_overlay |-> seg.text_overlay,
     voiceover_script |-> seg.voiceover_script,
     props_needed |-> seg.props_needed,
     location |-> seg.location]

\* SOPQuestionnaire.to_dict()
to_dict(qq) ==
    [project_title |-> qq.project_title,
     sop_purpose |-> qq.sop_purpose,
     target_audience |-> qq.target_audience,
     video_style |-> StyleValue(qq.video_style),
     brand_colors |-> qq.brand_colors,
     brand_fonts |-> qq.brand_fonts,
     target_platforms |->
         [i \in 1..Len(qq.target_platforms) |->
             PlatformValue(qq.target_platforms[i])],
     presenter_type |-> qq.presenter_type,
     presenter_description |-> qq.presenter_description,
     presenter_clothing |-> qq.presenter_clothing,
     primary_location |-> qq.primary_location,
     location_description |-> qq.location_description,
     lighting_preference |-> qq.lighting_preference,
     segments |-> [i \in 1..Len(qq.segments) |-> SegmentDict(qq.segments[i])],
     company_name |-> qq.company_name,
     logo_placement |-> qq.logo_placement,
     intro_outro_needed |-> qq.intro_outro_needed,
     music_style |-> qq.music_style,
     voiceover_needed |-> qq.voiceover_needed,
     voiceover_language |-> qq.voiceover_language,
     consistency_mode |-> qq.consistency_mode]

\* Mutant of SegmentFromDict: the duration is looked up under a key the
\* record does not have, so the default is taken.
SegmentFromDictWrongKey(sd) ==
    [segment_number |-> sd["segment_number"],
     title |-> sd["title"],
     description |-> sd["description"],
     key_action |-> sd["key_action"],
     visual_focus |-> sd["visual_focus"],
     duration |-> Get(sd, "length", DefaultDuration),
     text_overlay |-> Get(sd, "text_overlay", None),
     voiceover_script |-> Get(sd, "voiceover_script", None),
     props_needed |-> Get(sd, "props_needed", <<>>),
     location |-> Get(sd, "location", None)]

\* The SOPSegment from_json builds from one element of "segments".
SegmentFromDict(sd) ==
    [segment_number |-> sd["segment_number"],
     title |-> sd["title"],
     description |-> sd["description"],
     key_action |-> sd["key_action"],
     visual_focus |-> sd["visual_focus"],
     duration |-> Get(sd, "duration", DefaultDuration),
     text_overlay |-> Get(sd, "text_overlay", None),
     voiceover_script |-> Get(sd, "voiceover_script", None),
     props_needed |-> Get(sd, "props_needed", <<>>),
     location |-> Get(sd, "location", None)]

\* SOPQuestionnaire.from_json(), from the record read.
from_json(data) ==
    [project_title |-> data["project_title"],
     sop_purpose |-> data["sop_purpose"],
     target_audience |-> data["target_audience"],
     video_style |-> VideoStyleOf(data["video_style"]),
     brand_colors |-> Get(data, "brand_colors", <<>>),
     brand_fonts |-> Get(data, "brand_fonts", <<>>),
     target_platforms |->
         LET ps == Get(data, "target_platforms", <<>>)
         IN  [i \in 1..Len(ps) |-> PlatformTargetOf(ps[i])],
     presenter_type |-> Get(data, "presenter_type", "none"),
     presenter_description |-> Get(data, "presenter_description", None),
     presenter_clothing |-> Get(data, "presenter_clothing", None),
     primary_location |-> Get(data, "primary_location", ""),
     location_description |-> Get(data, "location_description", ""),
     lighting_preference |->
         Get(data, "lighting_preference", "bright_professional"),
     segments |->
         LET ss == Get(data, "segments", <<>>)
         IN  [i \in 1..Len(ss) |-> SegmentFromDict(ss[i])],
     company_name |-> Get(data, "company_name", None),
     logo_placement |-> Get(data, "logo_placement", None),
     intro_outro_needed |-> Get(data, "intro_outro_needed", TRUE),
     music_style |-> Get(data, "music_style", None),
     voiceover_needed |-> Get(data, "voiceover_needed", FALSE),
     voiceover_language |-> Get(data, "voiceover_language", "english"),
     consistency_mode |-> Get(data, "consistency_mode", "strict")]

(***************************************************************************)
(* Prompt translator                                                       *)
(***************************************************************************)

\* ", ".join(items)
RECURSIVE JoinComma(_)
JoinComma(items) ==
    IF Len(items) = 0 THEN ""
    ELSE IF Len(items) = 1 THEN items[1]
    ELSE items[1] \o ", " \o JoinComma(Tail(items))

\* self.style_to_cinematography.get(style, "professional, clean composition")
Cinematography(style) ==
    CASE style = "PROFESSIONAL" ->
             "steady, professional camera work, clean composition, corporate aesthetic"
      [] style = "CASUAL" ->
             "handheld feel, natural movement, relaxed framing, approachable style"
      [] style = "EDUCATIONAL" ->
             "clear, focused shots, instructional framing, detailed visibility"
      [] style = "PROMOTIONAL" ->
             "dynamic angles, engaging movement, polished production, eye-catching"
      [] OTHER -> "professional, clean composition"

\* self.style_to_lighting.get(style, questionnaire.lighting_preference)
Lighting(style, lighting_preference) ==
    CASE style = "PROFESSIONAL" ->
             "bright, even professional lighting, high-key setup"
      [] style = "CASUAL" -> "natural lighting, soft shadows, warm tones"
      [] style = "EDUCATIONAL" ->
             "clear, well-lit environment, no harsh shadows, visibility priority"
      [] style = "PROMOTIONAL" ->
             "dramatic lighting, vibrant colors, high contrast, professional grade"
      [] OTHER -> lighting_preference

\* Mutant of HeaderBlock: the header states the segment's own duration.
HeaderBlockByDuration(segment) ==
    << "[" \o ToString(segment.duration) \o "-second video segment - "
           \o segment.title \o "]", "" >>

HeaderBlock(segment) ==
    << "[8-second video segment - " \o segment.title \o "]", "" >>

SceneBlock(segment) ==
    << "Scene: " \o segment.description,
       "Key Action: " \o segment.key_action,
       "Visual Focus: " \o segment.visual_focus,
       "" >>

\* Mutant of PresenterBlock: every kind but 'none' gets the person's block.
PresenterBlockAnyKind(qq) ==
    IF qq.presenter_type # "none" THEN
        (IF Truthy(qq.presenter_description)
             THEN << "Presenter: " \o qq.presenter_description >> ELSE << >>)
        \o (IF Truthy(qq.presenter_clothing)
                THEN << "Clothing: " \o qq.presenter_clothing >> ELSE << >>)
        \o << "Presenter position: Center frame, professional posture, engaging with camera",
              "" >>
    ELSE << >>

PresenterBlock(qq) ==
    IF qq.presenter_type = "person" THEN
        (IF Truthy(qq.presenter_description)
             THEN << "Presenter: " \o qq.presenter_description >> ELSE << >>)
        \o (IF Truthy(qq.presenter_clothing)
                THEN << "Clothing: " \o qq.presenter_clothing >> ELSE << >>)
        \o << "Presenter position: Center frame, professional posture, engaging with camera",
              "" >>
    ELSE IF qq.presenter_type = "animated_character" THEN
        (IF Truthy(qq.presenter_description)
             THEN << "Animated Character: " \o qq.presenter_description >>
             ELSE << >>)
        \o << "Character animation: Smooth, professional quality, expressive",
              "" >>
    ELSE << >>

\* Mutant of LocationBlock: the questionnaire's location is looked at first.
LocationBlockPrimaryFirst(segment, qq) ==
    (IF Truthy(qq.primary_location)
         THEN << "Location: " \o qq.primary_location >>
     ELSE IF Truthy(segment.location)
         THEN << "Location: " \o segment.location >>
     ELSE << >>)
    \o (IF Truthy(qq.location_description)
            THEN << qq.location_description >> ELSE << >>)
    \o << "" >>

LocationBlock(segment, qq) ==
    (IF Truthy(segment.location)
         THEN << "Location: " \o segment.location >>
     ELSE IF Truthy(qq.primary_location)
         THEN << "Location: " \o qq.primary_location >>
     ELSE << >>)
    \o (IF Truthy(qq.location_description)
            THEN << qq.location_description >> ELSE << >>)
    \o << "" >>

StyleBlock(qq) ==
    << "Cinematography: " \o Cinematography(qq.video_style),
       "Lighting: " \o Lighting(qq.video_style, qq.lighting_preference),
       "" >>

ColorBlock(qq) ==
    IF Len(qq.brand_colors) > 0
        THEN << "Color palette: " \o JoinComma(qq.brand_colors)
                    \o ", maintaining brand consistency",
                "" >>
    ELSE << >>

OverlayBlock(segment, qq) ==
    IF Truthy(segment.text_overlay) THEN
        << "Text Overlay: '" \o segment.text_overlay \o "'",
           "Text position: Lower third, clean sans-serif font, high contrast" >>
        \o (IF Len(qq.brand_colors) > 0
                THEN << "Text color: " \o qq.brand_colors[1] >> ELSE << >>)
        \o << "" >>
    ELSE << >>

PropsBlock(segment) ==
    IF Len(segment.props_needed) > 0
        THEN << "Props visible: " \o JoinComma(segment.props_needed), "" >>
    ELSE << >>

\* Mutant of HasPresenter: only a person counts as a presenter.
HasPresenterPersonOnly(qq) == qq.presenter_type = "person"

\* questionnaire.presenter_type in ["person", "animated_character"]
HasPresenter(qq) == qq.presenter_type \in {"person", "animated_character"}

\* Mutant of EmitsContinuity: the block for every segment that has a previous
\* one, whatever its number.
EmitsContinuityByPrevious(segment, previous_segment) ==
    previous_segment # NoObject

\* if previous_segment and segment.segment_number > 1
EmitsContinuity(segment, previous_segment) ==
    previous_segment # NoObject /\ segment.segment_number > 1

\* The continuity anchors; previous_segment is read only where the block is
\* emitted.
ContinuityBlock(segment, qq, previous_segment) ==
    IF EmitsContinuity(segment, previous_segment) THEN
        << "CONTINUITY REQUIREMENTS:" >>
        \o (IF HasPresenter(qq) THEN
                << "- Presenter MUST match exact appearance from Segment "
                       \o ToString(previous_segment.segment_number) >>
                \o (IF Truthy(qq.presenter_clothing)
                        THEN << "- Maintain exact clothing: "
                                    \o qq.presenter_clothing >>
                    ELSE << >>)
            ELSE << >>)
        \o (IF Truthy(qq.primary_location)
                THEN << "- Location MUST be identical to previous segment",
                        "- Lighting MUST match previous segment exactly" >>
            ELSE << >>)
        \o << "- Color palette MUST be consistent with previous segment", "" >>
    ELSE << >>

\* Mutant of ModeDisclaimer: balanced falls through to the creative line.
ModeDisclaimerMerged(mode) ==
    IF mode = "strict"
        THEN "- STRICT consistency: no variations from established baseline"
    ELSE "- Creative: preserve key elements but allow creative expression"

\* Mutant of ModeDisclaimer: the strict branch is never taken.
ModeDisclaimerNoStrict(mode) ==
    IF mode = "balanced"
        THEN "- Balanced: maintain core consistency while allowing natural variation"
    ELSE "- Creative: preserve key elements but allow creative expression"

ModeDisclaimer(mode) ==
    IF mode = "strict"
        THEN "- STRICT consistency: no variations from established baseline"
    ELSE IF mode = "balanced"
        THEN "- Balanced: maintain core consistency while allowing natural variation"
    ELSE "- Creative: preserve key elements but allow creative expression"

TechnicalBlock(qq) ==
    << "Technical Requirements:",
       "- Exactly 8 seconds duration",
       "- Smooth, professional quality",
       "- No camera shake or jitter",
       "- Clear, in-focus subjects",
       "- Professional production value",
       ModeDisclaimer(qq.consistency_mode),
       "" >>

NegativeBlock(segment) ==
    << "DO NOT INCLUDE:",
       "- Unrelated objects or people",
       "- Sudden lighting changes",
       "- Jump cuts or abrupt transitions",
       "- Inconsistent styles or aesthetics" >>
    \o (IF segment.segment_number > 1
            THEN << "- ANY changes to presenter appearance",
                    "- ANY changes to location or background" >>
        ELSE << >>)

\* translate_segment(segment, questionnaire, previous_segment): the lines of
\* the prompt, in order.
translate_segment(segment, qq, previous_segment) ==
    HeaderBlock(segment) \o SceneBlock(segment) \o PresenterBlock(qq)
    \o LocationBlock(segment, qq) \o StyleBlock(qq) \o ColorBlock(qq)
    \o OverlayBlock(segment, qq) \o PropsBlock(segment)
    \o ContinuityBlock(segment, qq, previous_segment)
    \o TechnicalBlock(qq) \o NegativeBlock(segment)

\* The consistency markers of a request: the keys present depend on the
\* presenter kind and on the primary location.
ConsistencyMarkers(segment, qq) ==
    LET base == [segment_number |-> segment.segment_number,
                 sequence_id |-> qq.project_title,
                 consistency_mode |-> qq.consistency_mode]
    IN  IF HasPresenter(qq) /\ Truthy(qq.primary_location) THEN
            [segment_number |-> segment.segment_number,
             sequence_id |-> qq.project_title,
             consistency_mode |-> qq.consistency_mode,
             presenter_id |-> "presenter_001",
             location_id |-> "location_001"]
        ELSE IF HasPresenter(qq) THEN
            [segment_number |-> segment.segment_number,
             sequence_id |-> qq.project_title,
             consistency_mode |-> qq.consistency_mode,
             presenter_id |-> "presenter_001"]
        ELSE IF Truthy(qq.primary_location) THEN
            [segment_number |-> segment.segment_number,
             sequence_id |-> qq.project_title,
             consistency_mode |-> qq.consistency_mode,
             location_id |-> "location_001"]
        ELSE base

\* Mutant of SceneId: the scene is numbered by the position in the list.
SceneIdByPosition(qq, segment, k) ==
    qq.project_title \o "_segment_" \o ToString(k)

\* f"{questionnaire.project_title}_segment_{segment.segment_number}"; k is
\* the segment's position in the list, which the code does not use.
SceneId(qq, segment, k) ==
    qq.project_title \o "_segment_" \o ToString(segment.segment_number)

\* VideoGenerationRequest(prompt, duration, scene_id, sequence_id,
\* consistency_markers), the other fields at their defaults.
VideoGenerationRequest(prompt_, duration, scene_id, sequence_id, markers) ==
    [prompt |-> prompt_,
     duration |-> duration,
     resolution |-> None,
     fps |-> None,
     aspect_ratio |-> None,
     consistency_markers |-> markers,
     scene_id |-> scene_id,
     sequence_id |-> sequence_id]

\* The loop of translate_questionnaire: the k-th request is built from the
\* k-th segment, with the segment before it in the list as the previous one.
SegmentRequests(qq) ==
    [k \in 1..Len(qq.segments) |->
        LET segment == qq.segments[k]
            previous_segment ==
                IF k = 1 THEN NoObject ELSE qq.segments[k - 1]
        IN  VideoGenerationRequest(
                translate_segment(segment, qq, previous_segment),
                segment.duration,
                SceneId(qq, segment, k),
                qq.project_title,
                ConsistencyMarkers(segment, qq))]

\* Mutant of translate_questionnaire: the segments are translated without
\* validate() having been asked.
translate_unvalidated(qq) ==
    [raised |-> None, requests |-> SegmentRequests(qq)]

\* translate_questionnaire(questionnaire): the requests returned, or the
\* text of the ValueError raised.
translate_questionnaire(qq) ==
    LET v == validate(qq)
    IN  IF ~v[1]
            THEN [raised |-> "Invalid questionnaire: " \o v[2],
                  requests |-> <<>>]
        ELSE [raised |-> None, requests |-> SegmentRequests(qq)]

(***************************************************************************)
(* Inputs of SpecValidate: the three required texts present or empty, and  *)
(* 0..MaxLen segments of which at most two miss a required text, numbered  *)
(* by position or in reverse.                                              *)
(***************************************************************************)

MaxLen == 7

GoodSegment(n) ==
    SOPSegment(n, "Intro", "Introduce the product", "Show product",
               "Product close-up")

\* What a segment can miss: every way of leaving title, description and
\* key_action empty, but for none of them.
DefectKinds ==
    { k \in [title : {"", "Intro"},
             description : {"", "Introduce the product"},
             key_action : {"", "Show product"}] :
        k.title = "" \/ k.description = "" \/ k.key_action = "" }

DefectiveSegment(n, k) ==
    SOPSegment(n, k.title, k.description, k.key_action, "Product close-up")

Numberings == {"position", "reversed"}

NumberAt(numbering, i, n) == IF numbering = "position" THEN i ELSE n + 1 - i

\* The sets of at most two positions of a list of n segments.
DefectPositions(n) ==
    { X \in SUBSET (1..n) : \E i, j \in 1..n : X \subseteq {i, j} } \cup {{}}

SegmentLists(maxlen) ==
    UNION { UNION { UNION {
        { [i \in 1..n |->
              IF i \in D THEN DefectiveSegment(NumberAt(nb, i, n), f[i])
              ELSE GoodSegment(NumberAt(nb, i, n))] :
          f \in [D -> DefectKinds] } :
        D \in DefectPositions(n) } :
        nb \in Numberings } :
        n \in 0..maxlen }

BaseQuestionnaire ==
    SOPQuestionnaire("Demo", "Show the product", "Customers", "PROMOTIONAL")

ValidateInputs ==
    { [BaseQuestionnaire EXCEPT !.project_title = t, !.sop_purpose = p,
                                !.target_audience = a, !.segments = s] :
        t \in {"", "Demo"}, p \in {"", "Show the product"},
        a \in {"", "Customers"}, s \in SegmentLists(MaxLen) }

(***************************************************************************)
(* The parts of the state a specification does not use stay idle.          *)
(***************************************************************************)

QuestionnaireIdle ==
    /\ q = NoObject /\ vresult = <<>> /\ requests = <<>> /\ terror = None
    /\ tscall = NoObject /\ record = NoObject /\ loaded = NoObject

QuestionnaireFresh(inputs) ==
    /\ q \in inputs /\ vresult = <<>> /\ requests = <<>> /\ terror = None
    /\ tscall = NoObject /\ record = NoObject /\ loaded = NoObject

PromptIdle == prompt = NoObject /\ presult = <<>>

\* VEO3Config: of its fields, the retry ceiling.
DefaultMaxRetries == 3

VEO3Config(max_retries) == [max_retries |-> max_retries]

\* The example driver before it has done anything.
DriverIdle ==
    [at |-> "start", handled |-> 0, videos |-> <<>>, complete |-> FALSE]

\* No generate_video call made yet.
CallIdle ==
    /\ pc = "idle" /\ request = NoObject
    /\ reply = NoObject /\ posts = 0 /\ polls = 0
    /\ url = None /\ downloads = 0 /\ fetched = None
    /\ response = NoObject /\ raised = FALSE /\ calls = 0

ClientIdle ==
    /\ CallIdle
    /\ config = VEO3Config(DefaultMaxRetries)
    /\ driver = DriverIdle

(***************************************************************************)
(* SpecValidate: a questionnaire is built, then validate() is called.      *)
(***************************************************************************)

InitValidate ==
    /\ phase = "init"
    /\ QuestionnaireFresh(ValidateInputs)
    /\ PromptIdle /\ ClientIdle

Validate ==
    /\ phase = "init"
    /\ phase' = "validate"
    /\ vresult' = validate(q)
    /\ UNCHANGED <<q, requests, terror, tscall, record, loaded>>
    /\ UNCHANGED pvars /\ UNCHANGED cvars

NextValidate == Validate

SpecValidate == InitValidate /\ [][NextValidate]_vars

(***************************************************************************)
(* Inputs of SpecTranslate.  Three families of questionnaires:             *)
(*   - every combination of the questionnaire-level fields the translator  *)
(*     reads, over one list of two segments;                               *)
(*   - 0..MaxLen plain segments, numbered by position or in reverse, at    *)
(*     most one without a title, under a bare and under a fully populated  *)
(*     questionnaire, with and without a project title;                    *)
(*   - at most two segments with every combination of the optional segment *)
(*     fields and any numbers in 1..MaxNum.                                *)
(***************************************************************************)

MaxNum == 3

PresenterTypes == {"none", "person", "animated_character", "text_only"}

ConsistencyModes == {"strict", "balanced", "creative"}

\* A segment with every optional field set.
FullSegment(n) ==
    [GoodSegment(n) EXCEPT !.location = "lab", !.text_overlay = "Step 1",
                           !.props_needed = <<"laptop", "mug">>,
                           !.voiceover_script = "Welcome", !.duration = 12]

RichSegments ==
    { [GoodSegment(n) EXCEPT !.location = l, !.text_overlay = t,
                             !.props_needed = p, !.duration = d] :
        n \in 1..MaxNum, l \in {None, "lab"}, t \in {None, "Step 1"},
        p \in {<<>>, <<"laptop", "mug">>}, d \in {DefaultDuration, 12} }

\* A questionnaire with every optional field set.
FullQuestionnaire ==
    [BaseQuestionnaire EXCEPT
        !.brand_colors = <<"#FF0000", "#00FF00">>,
        !.brand_fonts = <<"Helvetica">>,
        !.target_platforms = <<"TIKTOK", "INSTAGRAM">>,
        !.presenter_type = "person",
        !.presenter_description = "X",
        !.presenter_clothing = "blue suit",
        !.primary_location = "clean_modern_office",
        !.location_description = "Bright open space",
        !.company_name = "Acme",
        !.logo_placement = "top right",
        !.intro_outro_needed = FALSE,
        !.music_style = "upbeat",
        !.voiceover_needed = TRUE,
        !.voiceover_language = "french",
        !.consistency_mode = "strict"]

ProfileInputs ==
    { [BaseQuestionnaire EXCEPT
          !.presenter_type = pt, !.presenter_description = pd,
          !.presenter_clothing = pcl, !.primary_location = pl,
          !.location_description = ld, !.video_style = vs,
          !.brand_colors = bc, !.consistency_mode = cm,
          !.segments = <<GoodSegment(1), FullSegment(2)>>] :
        pt \in PresenterTypes, pd \in {None, "X"}, pcl \in {None, "blue suit"},
        pl \in {"", "clean_modern_office"}, ld \in {"", "Bright open space"},
        vs \in VideoStyle, bc \in {<<>>, <<"#FF0000", "#00FF00">>},
        cm \in ConsistencyModes }

PlainLists(maxlen) ==
    UNION { UNION {
        { [i \in 1..n |->
              IF i = d THEN DefectiveSegment(NumberAt(nb, i, n),
                                [title |-> "",
                                 description |-> "Introduce the product",
                                 key_action |-> "Show product"])
              ELSE GoodSegment(NumberAt(nb, i, n))] :
          d \in 0..n } :
        nb \in Numberings } :
        n \in 0..maxlen }

StructureInputs ==
    { [b EXCEPT !.project_title = t, !.segments = s] :
        b \in {BaseQuestionnaire, FullQuestionnaire}, t \in {"", "Demo"},
        s \in PlainLists(MaxLen) }

RichLists ==
    {<<>>} \cup { <<a>> : a \in RichSegments }
    \cup { <<a, b>> : a \in RichSegments,
                      b \in { GoodSegment(n) : n \in 1..MaxNum }
                            \cup { FullSegment(n) : n \in 1..MaxNum } }

RichInputs ==
    { [b EXCEPT !.segments = s] :
        b \in {BaseQuestionnaire, FullQuestionnaire}, s \in RichLists }

TranslateInputs == ProfileInputs \cup StructureInputs \cup RichInputs

(***************************************************************************)
(* SpecTranslate: a questionnaire is built, then either the whole of it is *)
(* translated or translate_segment is called on one of its segments, with  *)
(* no previous segment or with any segment of the list as the previous one.*)
(***************************************************************************)

InitTranslate ==
    /\ phase = "init"
    /\ QuestionnaireFresh(TranslateInputs)
    /\ PromptIdle /\ ClientIdle

\* Mutant of TranslateQuestionnaire: the call renumbers the segments of the
\* questionnaire by their position.
TranslateQuestionnaireRenumbering ==
    /\ phase = "init"
    /\ phase' = "translate"
    /\ LET r == translate_questionnaire(q)
       IN  terror' = r.raised /\ requests' = r.requests
    /\ q' = [q EXCEPT !.segments =
                  [k \in 1..Len(q.segments) |->
                      [q.segments[k] EXCEPT !.segment_number = k]]]
    /\ UNCHANGED <<vresult, tscall, record, loaded>>
    /\ UNCHANGED pvars /\ UNCHANGED cvars

\* requests = translator.translate_questionnaire(questionnaire)
TranslateQuestionnaire ==
    /\ phase = "init"
    /\ phase' = "translate"
    /\ LET r == translate_questionnaire(q)
       IN  terror' = r.raised /\ requests' = r.requests
    /\ UNCHANGED <<q, vresult, tscall, record, loaded>>
    /\ UNCHANGED pvars /\ UNCHANGED cvars

TranslateSegment ==
    /\ phase = "init"
    /\ \E i \in 1..Len(q.segments) :
       \E previous_segment \in
              {NoObject} \cup { q.segments[j] : j \in 1..Len(q.segments) } :
           tscall' = [segment |-> q.segments[i],
                      previous |-> previous_segment,
                      prompt |-> translate_segment(q.segments[i], q,
                                                   previous_segment)]
    /\ phase' = "translate_segment"
    /\ UNCHANGED <<q, vresult, requests, terror, record, loaded>>
    /\ UNCHANGED pvars /\ UNCHANGED cvars

NextTranslate == TranslateQuestionnaire \/ TranslateSegment

SpecTranslate == InitTranslate /\ [][NextTranslate]_vars

(***************************************************************************)
(* Inputs of SpecRoundTrip.  Three families of questionnaires:             *)
(*   - every video style, every list of at most two distinct platforms, in *)
(*     both orders, and the brand colors empty or in either order;         *)
(*   - every optional questionnaire text absent, empty or set, one at a    *)
(*     time, every presenter kind and the two flags;                       *)
(*   - at most two segments, the first with every combination of its       *)
(*     optional fields and any number in 1..MaxNum.                        *)
(***************************************************************************)

PlatformLists ==
    {<<>>} \cup { <<a>> : a \in PlatformTarget }
    \cup { p \in PlatformTarget \X PlatformTarget : p[1] # p[2] }

EnumInputs ==
    { [FullQuestionnaire EXCEPT
          !.video_style = vs, !.target_platforms = tp, !.brand_colors = bc,
          !.segments = <<GoodSegment(1), FullSegment(2)>>] :
        vs \in VideoStyle, tp \in PlatformLists,
        bc \in {<<>>, <<"#FF0000", "#00FF00">>, <<"#00FF00", "#FF0000">>} }

OptionalTexts == {None, "", "text"}

OptionalInputs ==
    { [FullQuestionnaire EXCEPT !.presenter_description = v] : v \in OptionalTexts }
    \cup { [FullQuestionnaire EXCEPT !.presenter_clothing = v] : v \in OptionalTexts }
    \cup { [FullQuestionnaire EXCEPT !.company_name = v] : v \in OptionalTexts }
    \cup { [FullQuestionnaire EXCEPT !.logo_placement = v] : v \in OptionalTexts }
    \cup { [FullQuestionnaire EXCEPT !.music_style = v] : v \in OptionalTexts }
    \cup { [FullQuestionnaire EXCEPT !.brand_fonts = v] :
             v \in {<<>>, <<"Helvetica">>, <<"Arial", "Helvetica">>} }
    \cup { [BaseQuestionnaire EXCEPT
               !.presenter_type = pt, !.intro_outro_needed = io,
               !.voiceover_needed = vn, !.voiceover_language = vl,
               !.lighting_preference = lp, !.consistency_mode = cm] :
             pt \in PresenterTypes, io \in BOOLEAN, vn \in BOOLEAN,
             vl \in {"english", "french"},
             lp \in {"bright_professional", "moody"},
             cm \in ConsistencyModes }

RoundTripSegments ==
    { [GoodSegment(n) EXCEPT !.location = l, !.text_overlay = t,
                             !.voiceover_script = v, !.props_needed = p,
                             !.duration = d] :
        n \in 1..MaxNum, l \in {None, "lab"}, t \in {None, "Step 1"},
        v \in {None, "Welcome"},
        p \in {<<>>, <<"laptop", "mug">>, <<"mug", "laptop">>},
        d \in {DefaultDuration, 12} }

RoundTripLists ==
    {<<>>} \cup { <<a>> : a \in RoundTripSegments }
    \cup { <<a, b>> : a \in RoundTripSegments,
                      b \in { GoodSegment(n) : n \in 1..MaxNum }
                            \cup { FullSegment(n) : n \in 1..MaxNum } }
    \cup { <<b, a>> : a \in RoundTripSegments,
                      b \in { GoodSegment(n) : n \in 1..MaxNum } }

RoundTripInputs ==
    EnumInputs \cup OptionalInputs
    \cup { [FullQuestionnaire EXCEPT !.segments = s] : s \in RoundTripLists }

(***************************************************************************)
(* SpecRoundTrip: a questionnaire is built, saved with to_json and read    *)
(* back with from_json.                                                    *)
(***************************************************************************)

InitRoundTrip ==
    /\ phase = "init"
    /\ QuestionnaireFresh(RoundTripInputs)
    /\ PromptIdle /\ ClientIdle

ToJson ==
    /\ phase = "init"
    /\ phase' = "to_json"
    /\ record' = to_dict(q)
    /\ UNCHANGED <<q, vresult, requests, terror, tscall, loaded>>
    /\ UNCHANGED pvars /\ UNCHANGED cvars

FromJson ==
    /\ phase = "to_json"
    /\ phase' = "from_json"
    /\ loaded' = from_json(record)
    /\ UNCHANGED <<q, vresult, requests, terror, tscall, record>>
    /\ UNCHANGED pvars /\ UNCHANGED cvars

NextRoundTrip == ToJson \/ FromJson

SpecRoundTrip == InitRoundTrip /\ [][NextRoundTrip]_vars

(***************************************************************************)
(* Generation client: validate_prompt.  A prompt is kept as the lengths of *)
(* its leading whitespace, of its core (what strip() leaves: empty, or a   *)
(* text that starts and ends with a non-whitespace character) and of its   *)
(* trailing whitespace.                                                    *)
(***************************************************************************)

MinPromptLength == 10
MaxPromptLength == 5000

\* len(prompt)
PromptLen(p) == p.lead + p.core + p.trail

\* len(prompt.strip())
StrippedLen(p) == p.core

\* Mutants of PromptTooShort and PromptTooLong: the limits themselves are
\* rejected.
PromptTooShortInclusive(p) == PromptLen(p) <= MinPromptLength

PromptTooLongInclusive(p) == PromptLen(p) >= MaxPromptLength

PromptTooShort(p) == PromptLen(p) < MinPromptLength

PromptTooLong(p) == PromptLen(p) > MaxPromptLength

\* VEO3Client.validate_prompt(prompt): (is_valid, error_message).
validate_prompt(p) ==
    IF PromptLen(p) = 0 \/ StrippedLen(p) = 0
        THEN <<FALSE, "Prompt cannot be empty">>
    ELSE IF PromptTooShort(p)
        THEN <<FALSE, "Prompt too short (minimum 10 characters)">>
    ELSE IF PromptTooLong(p)
        THEN <<FALSE, "Prompt too long (maximum 5000 characters)">>
    ELSE <<TRUE, None>>

\* Inputs of SpecPrompt: a core of 0..MaxCore characters, with no whitespace
\* or PadLen whitespace characters before it, and the same after it.
MaxCore == 5002
PadLen == 5

PromptInputs ==
    [lead : {0, PadLen}, core : 0..MaxCore, trail : {0, PadLen}]

(***************************************************************************)
(* SpecPrompt: validate_prompt is called on a prompt.                      *)
(***************************************************************************)

InitPrompt ==
    /\ phase = "init"
    /\ prompt \in PromptInputs /\ presult = <<>>
    /\ QuestionnaireIdle /\ ClientIdle

ValidatePrompt ==
    /\ phase = "init"
    /\ phase' = "validate_prompt"
    /\ presult' = validate_prompt(prompt)
    /\ UNCHANGED prompt
    /\ UNCHANGED qvars /\ UNCHANGED cvars

NextPrompt == ValidatePrompt

SpecPrompt == InitPrompt /\ [][NextPrompt]_vars

(***************************************************************************)
(* Generation client: generate_video.  One step is one HTTP exchange and   *)
(* what the client does with the reply up to its next exchange or return.  *)
(*   pc = "idle"         no call made yet                                  *)
(*   pc = "polling"      in the loop of _poll_generation_status            *)
(*   pc = "downloading"  about to fetch the artifact in _download_video    *)
(*   pc = "returned"     generate_video has returned (or raised)           *)
(***************************************************************************)

max_polls == 60

MaxCalls == 2

\* The URL a submission reply can carry, and the one a status reply can.
VideoUrl == "http://x/v.mp4"

OperationVideoUrl == "http://x/op-1.mp4"

\* The retry ceilings a configuration can carry.
Configs == { VEO3Config(n) : n \in {0, DefaultMaxRetries} }

\* What an HTTP exchange can end in other than a decoded reply:
\* requests.post/get raising, raise_for_status() raising, json() raising.
TransportFailures == {"connection_error", "http_error", "bad_json"}

\* str(e) of the exception.
ErrorText(status) ==
    CASE status = "connection_error" -> "Connection refused"
      [] status = "http_error" -> "500 Server Error"
      [] status = "bad_json" -> "Expecting value: line 1 column 1 (char 0)"
      [] status = "download_error" -> "Download error"
      [] status = "attribute_error" -> "'str' object has no attribute 'get'"

\* The replies to the submission: a failure, or an object that may hold
\* "operationId" and may hold "videoUrl" (None: the key is absent).
PostReplies ==
    [status : {"ok"}, operationId : {None, "op-1"},
     videoUrl : {None, "", VideoUrl}]
    \cup [status : TransportFailures, operationId : {None}, videoUrl : {None}]

\* The "error" of a status reply: absent, an object with a message (a text,
\* the empty text, or null), an object without one, or a value that is no
\* object (a text).
ErrorKinds ==
    {"absent", "message", "empty_message", "null_message", "no_message",
     "not_object"}

\* result["error"].get("message", "Unknown error") of an error object.
ErrorMessage(kind) ==
    CASE kind = "message" -> "Quota exceeded"
      [] kind = "empty_message" -> ""
      [] kind = "null_message" -> None
      [] kind = "no_message" -> "Unknown error"

\* The replies to a status fetch: a failure, or an object with "done", maybe
\* an "error" and maybe a response "videoUrl".
PollReplies ==
    [status : {"ok"}, done : BOOLEAN, error : ErrorKinds,
     videoUrl : {None, "", OperationVideoUrl}]
    \cup [status : TransportFailures, done : {FALSE}, error : {"absent"},
          videoUrl : {None}]

\* Mutant of FailedResponse: the response counts a retry.
FailedResponseRetried(error) ==
    [success |-> FALSE, video_path |-> None, video_url |-> None,
     metadata |-> None, error |-> error, retry_count |-> 1]

\* VideoGenerationResponse(success=False, error=...)
FailedResponse(error) ==
    [success |-> FALSE, video_path |-> None, video_url |-> None,
     metadata |-> None, error |-> error, retry_count |-> 0]

\* VideoGenerationResponse(success=True, video_path=..., video_url=...,
\* metadata=...)
SuccessResponse(video_path, video_url) ==
    [success |-> TRUE, video_path |-> video_path, video_url |-> video_url,
     metadata |-> "{}", error |-> None, retry_count |-> 0]

\* The path _download_video returns: output_dir/<scene or 'video'>_<time>.mp4
OutputPath(scene_id) ==
    "./output/videos/" \o (IF Truthy(scene_id) THEN scene_id ELSE "video")
        \o "_1700000000.mp4"

\* The requests a caller hands to generate_video: with and without a scene.
ClientRequests ==
    { VideoGenerationRequest("A presenter shows the product to the camera",
                             DefaultDuration, scene_id, None, NoObject) :
        scene_id \in {None, "Demo_segment_1"} }

\* Where an exception can come up during a call:
\*   "post"            the submission, its status check and its decoding
\*   "sync_download"   _download_video called from generate_video
\*   "status"          a status fetch, its status check and its decoding
\*   "error_message"   reading the message of the "error" of a status reply
\*   "poll_download"   _download_video called from the polling loop
SubmitSites == {"post", "sync_download"}

PollSites == {"status", "error_message", "poll_download"}

\* Mutant of Handlers: no try block at all.
HandlersNone(site) == <<>>

\* Mutant of Handlers: the polling loop has no try block of its own.
HandlersOuterOnly(site) ==
    IF site \in PollSites \cup SubmitSites THEN <<"generate_video">>
    ELSE <<>>

\* Mutant of Handlers: nothing encloses the download.
HandlersButDownload(site) ==
    IF site \in {"sync_download", "poll_download"} THEN <<>>
    ELSE IF site \in PollSites THEN <<"poll_loop", "generate_video">>
    ELSE <<"generate_video">>

\* The try blocks that enclose a site, innermost first.  The polling runs
\* inside the try block of generate_video and has its own inside the loop;
\* _download_video re-raises what it catches.
Handlers(site) ==
    IF site \in PollSites THEN <<"poll_loop", "generate_video">>
    ELSE IF site \in SubmitSites THEN <<"generate_video">>
    ELSE <<>>

\* How a call ends when an exception with text str(e) comes up at a site: the
\* innermost handler turns it into a failed response; with no handler it
\* reaches the caller.
Raise(site, text) ==
    IF Handlers(site) = <<>>
        THEN [raised |-> TRUE, response |-> NoObject]
    ELSE IF Handlers(site)[1] = "poll_loop"
        THEN [raised |-> FALSE,
              response |-> FailedResponse("Polling failed: " \o text)]
    ELSE [raised |-> FALSE, response |-> FailedResponse(text)]

\* Mutant of ReplyShape: the video URL is looked for first.
ReplyShapeUrlFirst(r) ==
    IF r.videoUrl # None THEN "sync"
    ELSE IF r.operationId # None THEN "async"
    ELSE "unexpected"

\* What generate_video takes a decoded reply for: "operationId" in result is
\* tested first, "videoUrl" in result second.
ReplyShape(r) ==
    IF r.operationId # None THEN "async"
    ELSE IF r.videoUrl # None THEN "sync"
    ELSE "unexpected"

\* generate_video(request): the submission and what its reply leads to.
Submit(rq, r) ==
    /\ pc \in {"idle", "returned"}
    /\ calls < MaxCalls
    /\ calls' = calls + 1
    /\ request' = rq
    /\ posts' = 1
    /\ polls' = 0
    /\ downloads' = 0
    /\ fetched' = None
    /\ reply' = r
    /\ IF r.status # "ok" THEN
           /\ pc' = "returned"
           /\ url' = None
           /\ response' = Raise("post", ErrorText(r.status)).response
           /\ raised' = Raise("post", ErrorText(r.status)).raised
       ELSE IF ReplyShape(r) = "async" THEN
           /\ pc' = "polling"
           /\ url' = None
           /\ response' = NoObject
           /\ raised' = FALSE
       ELSE IF ReplyShape(r) = "sync" THEN
           /\ pc' = "downloading"
           /\ url' = r.videoUrl
           /\ response' = NoObject
           /\ raised' = FALSE
       ELSE
           /\ pc' = "returned"
           /\ url' = None
           /\ response' = FailedResponse("Unexpected API response format")
           /\ raised' = FALSE
    /\ UNCHANGED <<config, driver>>
    /\ UNCHANGED phase /\ UNCHANGED qvars /\ UNCHANGED pvars

\* Mutant of PollCompleted: an empty video URL counts as one.
PollCompletedAnyUrl(r) == r.done /\ r.error = "absent" /\ r.videoUrl # None

\* Mutant of PollCompleted: completion is not noticed.
PollNeverCompleted(r) == FALSE

\* Mutant of PollCompleted: a done reply counts whether or not it has a URL.
PollCompletedWithoutUrl(r) == r.done /\ r.error = "absent"

\* result.get("done") and no "error", and a video URL that is not empty.
PollCompleted(r) == r.done /\ r.error = "absent" /\ Truthy(r.videoUrl)

\* Mutant of PollFailed: a reply with an error fails whether or not done.
PollFailedNotDone(r) == r.error # "absent"

\* result.get("done") and "error" in result.
PollFailed(r) == r.done /\ r.error # "absent"

\* Mutant of LoopEnds: the loop has no last pass.
LoopEndsNever(i) == FALSE

\* Mutant of LoopEnds: one more pass.
LoopEndsLate(i) == i = max_polls

\* range(max_polls) is exhausted after the pass that follows i passes.
LoopEnds(i) == i + 1 = max_polls

\* One pass of the loop of _poll_generation_status: the status fetch and what
\* its reply leads to; after the last pass the loop ends in the timeout.
Poll(r) ==
    /\ pc = "polling"
    /\ polls < max_polls
    /\ polls' = polls + 1
    /\ reply' = r
    /\ IF r.status # "ok" THEN
           /\ pc' = "returned"
           /\ response' = Raise("status", ErrorText(r.status)).response
           /\ raised' = Raise("status", ErrorText(r.status)).raised
           /\ url' = url
       ELSE IF PollFailed(r) THEN
           /\ pc' = "returned"
           /\ response' =
                  IF r.error # "not_object"
                      THEN FailedResponse(ErrorMessage(r.error))
                  ELSE Raise("error_message",
                             ErrorText("attribute_error")).response
           /\ raised' =
                  IF r.error = "not_object"
                      THEN Raise("error_message",
                                 ErrorText("attribute_error")).raised
                  ELSE FALSE
           /\ url' = url
       ELSE IF PollCompleted(r) THEN
           /\ pc' = "downloading"
           /\ url' = r.videoUrl
           /\ response' = response
           /\ raised' = FALSE
       ELSE IF LoopEnds(polls) THEN
           /\ pc' = "returned"
           /\ response' = FailedResponse("Generation timeout")
           /\ raised' = FALSE
           /\ url' = url
       ELSE
           /\ pc' = "polling"
           /\ response' = response
           /\ raised' = FALSE
           /\ url' = url
    /\ UNCHANGED <<request, posts, downloads, fetched, calls, config, driver>>
    /\ UNCHANGED phase /\ UNCHANGED qvars /\ UNCHANGED pvars

\* The site of the download of the current call: the polling loop when a
\* status fetch has been made, generate_video itself otherwise.
DownloadSite == IF polls = 0 THEN "sync_download" ELSE "poll_download"

\* _download_video(url, scene_id) and the return that follows it.  A failed
\* download raises inside the try block of its caller.
Download(outcome) ==
    /\ pc = "downloading"
    /\ url = "" => outcome = "failed"
    /\ downloads' = downloads + 1
    /\ fetched' = outcome
    /\ pc' = "returned"
    /\ response' =
           IF outcome = "ok"
               THEN SuccessResponse(OutputPath(request.scene_id), url)
           ELSE Raise(DownloadSite, ErrorText("download_error")).response
    /\ raised' =
           IF outcome = "ok" THEN FALSE
           ELSE Raise(DownloadSite, ErrorText("download_error")).raised
    /\ UNCHANGED <<request, reply, posts, polls, url, calls, config, driver>>
    /\ UNCHANGED phase /\ UNCHANGED qvars /\ UNCHANGED pvars

InitClient ==
    /\ phase = "init"
    /\ CallIdle
    /\ config \in Configs
    /\ driver = DriverIdle
    /\ QuestionnaireIdle /\ PromptIdle

GenerateVideo == \E rq \in ClientRequests, r \in PostReplies : Submit(rq, r)

PollStatus == \E r \in PollReplies : Poll(r)

DownloadVideo == \E outcome \in {"ok", "failed"} : Download(outcome)

Next == GenerateVideo \/ PollStatus \/ DownloadVideo

Init == InitClient

Spec == Init /\ [][Next]_vars

\* The same with every HTTP call of a call under way returning or failing:
\* a status fetch or a download that can be made is made.  Whether another
\* call is started is up to the caller.
SpecTerminating ==
    Init /\ [][Next]_vars /\ WF_vars(PollStatus) /\ WF_vars(DownloadVideo)

(***************************************************************************)
(* The example driver (src/example_sop_video.py, example_product_demo): it *)
(* validates the questionnaire, translates it, builds the client, and      *)
(* hands the requests to generate_video one after the other.               *)
(*   driver.at = "start"       before questionnaire.validate()             *)
(*   driver.at = "validated"   validate() accepted                         *)
(*   driver.at = "translated"  translate_questionnaire returned            *)
(*   driver.at = "loop"        in the for loop over the requests           *)
(*   driver.at = "stopped"     the loop was left by break                  *)
(*   driver.at = "done"        the function ran to its end                 *)
(*   driver.at = "exited"      sys.exit(1), or return before the loop      *)
(*   driver.at = "raised"      an exception left the function              *)
(* In the loop, the requests handed over so far are counted by calls and   *)
(* the responses dealt with by driver.handled.                             *)
(***************************************************************************)

\* The questionnaires the driver is run on: complete ones of up to MaxCalls
\* segments, and ones validate() refuses.
DriverInputs ==
    { [BaseQuestionnaire EXCEPT !.project_title = t, !.segments = s] :
        t \in {"", "Demo"}, s \in PlainLists(MaxCalls) }

\* is_valid, error = questionnaire.validate(); sys.exit(1) when not valid.
DriverValidate ==
    /\ driver.at = "start"
    /\ vresult' = validate(q)
    /\ driver' = [driver EXCEPT
                      !.at = IF validate(q)[1] THEN "validated" ELSE "exited"]
    /\ UNCHANGED <<q, requests, terror, tscall, record, loaded>>
    /\ UNCHANGED <<pc, request, reply, posts, polls, url, downloads, fetched,
                   response, raised, calls, config>>
    /\ UNCHANGED phase /\ UNCHANGED pvars

\* requests = translator.translate_questionnaire(questionnaire); a ValueError
\* is not caught by the driver.
DriverTranslate ==
    /\ driver.at = "validated"
    /\ LET r == translate_questionnaire(q)
       IN  /\ terror' = r.raised
           /\ requests' = r.requests
           /\ driver' = [driver EXCEPT
                             !.at = IF r.raised = None THEN "translated"
                                    ELSE "raised"]
    /\ UNCHANGED <<q, vresult, tscall, record, loaded>>
    /\ UNCHANGED <<pc, request, reply, posts, polls, url, downloads, fetched,
                   response, raised, calls, config>>
    /\ UNCHANGED phase /\ UNCHANGED pvars

\* Building the client and asking for confirmation: the driver returns when
\* the API key is missing or the answer is not 'y', and enters the loop
\* otherwise.
DriverPrepare(outcome) ==
    /\ driver.at = "translated"
    /\ driver' = [driver EXCEPT
                      !.at = IF outcome = "confirmed" THEN "loop"
                             ELSE "exited"]
    /\ UNCHANGED <<pc, request, reply, posts, polls, url, downloads, fetched,
                   response, raised, calls, config>>
    /\ UNCHANGED phase /\ UNCHANGED qvars /\ UNCHANGED pvars

\* Mutant of NextRequest: the next request is handed over as soon as the
\* one before it has returned, successful or not.
NextRequestAfterAny == driver.at = "loop" /\ calls < Len(requests)

\* for i, request in enumerate(requests, 1): the loop takes the next request
\* when the response to the one before it has been dealt with and requests
\* are left.
NextRequest ==
    driver.at = "loop" /\ driver.handled = calls /\ calls < Len(requests)

\* response = client.generate_video(request), up to the first exchange.
DriverGenerate ==
    /\ NextRequest
    /\ \E r \in PostReplies : Submit(requests[calls + 1], r)

\* The status fetches and the download of the call under way.
DriverPoll == driver.at = "loop" /\ PollStatus

DriverDownload == driver.at = "loop" /\ DownloadVideo

\* if response.success: videos.append(response.video_path) / else: break.
\* An exception of generate_video would leave the driver.
DriverReceive ==
    /\ driver.at = "loop"
    /\ pc = "returned"
    /\ driver.handled < calls
    /\ driver' =
           IF raised THEN [driver EXCEPT !.at = "raised"]
           ELSE IF response.success
               THEN [driver EXCEPT
                         !.handled = @ + 1,
                         !.videos = Append(@, response.video_path)]
           ELSE [driver EXCEPT !.handled = @ + 1, !.at = "stopped"]
    /\ UNCHANGED <<pc, request, reply, posts, polls, url, downloads, fetched,
                   response, raised, calls, config>>
    /\ UNCHANGED phase /\ UNCHANGED qvars /\ UNCHANGED pvars

\* After the loop: if len(videos) == len(requests): print("Complete! ...").
DriverFinish ==
    /\ \/ driver.at = "stopped"
       \/ /\ driver.at = "loop"
          /\ driver.handled = calls /\ calls = Len(requests)
    /\ driver' = [driver EXCEPT
                      !.at = "done",
                      !.complete = (Len(driver.videos) = Len(requests))]
    /\ UNCHANGED <<pc, request, reply, posts, polls, url, downloads, fetched,
                   response, raised, calls, config>>
    /\ UNCHANGED phase /\ UNCHANGED qvars /\ UNCHANGED pvars

InitDriver ==
    /\ phase = "init"
    /\ QuestionnaireFresh(DriverInputs)
    /\ PromptIdle /\ ClientIdle

NextDriver ==
    \/ DriverValidate
    \/ DriverTranslate
    \/ \E outcome \in {"confirmed", "no_api_key", "declined"} :
           DriverPrepare(outcome)
    \/ DriverGenerate
    \/ DriverPoll
    \/ DriverDownload
    \/ DriverReceive
    \/ DriverFinish

SpecDriver == InitDriver /\ [][NextDriver]_vars

(***************************************************************************)
(* Claims on validate() (SpecValidate)                                     *)
(***************************************************************************)

HeaderComplete(qq) ==
    qq.project_title # "" /\ qq.sop_purpose # "" /\ qq.target_audience # ""

CountInRange(qq) == Len(qq.segments) >= 1 /\ Len(qq.segments) <= 6

SegmentComplete(s) == s.title # "" /\ s.description # "" /\ s.key_action # ""

\* The reason a segment that misses a text is rejected with.
SegmentReason(s) ==
    "Segment " \o ToString(s.segment_number) \o
        (IF s.title = "" THEN " missing title"
         ELSE IF s.description = "" THEN " missing description"
         ELSE " missing key action")

\* The checks in their fixed order, each <<fails, reason>>.
OrderedChecks(qq) ==
    << <<qq.project_title = "", "Project title is required">>,
       <<qq.sop_purpose = "", "SOP purpose is required">>,
       <<qq.target_audience = "", "Target audience is required">>,
       <<Len(qq.segments) = 0, "At least one segment is required">>,
       <<Len(qq.segments) > 6,
         "Maximum 6 segments allowed (48 seconds total)">> >>
    \o [i \in 1..Len(qq.segments) |->
            <<~SegmentComplete(qq.segments[i]), SegmentReason(qq.segments[i])>>]

FirstFailingReason(qq) ==
    LET cs == OrderedChecks(qq)
        k == CHOOSE i \in 1..Len(cs) :
                 cs[i][1] /\ \A j \in 1..(i - 1) : ~cs[j][1]
    IN  cs[k][2]

\* C1: validate() returns (True, None) exactly when the three required texts
\* are non-empty, there are 1..6 segments and every segment has a title, a
\* description and a key action; otherwise it returns (False, reason) with the
\* reason of the first failing check in the fixed order.
C1_ValidateContract ==
    phase = "validate" =>
        LET ok == /\ HeaderComplete(q) /\ CountInRange(q)
                  /\ \A i \in 1..Len(q.segments) : SegmentComplete(q.segments[i])
        IN  IF ok THEN vresult = <<TRUE, None>>
            ELSE vresult = <<FALSE, FirstFailingReason(q)>>

\* Six segments, two of them defective: the rejection is decided by the
\* earlier of the two.
C1_Witness ==
    /\ phase = "validate"
    /\ Len(q.segments) = 6
    /\ HeaderComplete(q)
    /\ vresult[1] = FALSE
    /\ \E i, j \in 1..6 : i < j /\ ~SegmentComplete(q.segments[i])
                          /\ ~SegmentComplete(q.segments[j])

SegmentCountReason(qq) ==
    IF Len(qq.segments) = 0 THEN "At least one segment is required"
    ELSE "Maximum 6 segments allowed (48 seconds total)"

\* C2 as stated: whenever the segment count is outside [1,6], validate()
\* rejects with the segment-count reason.
C2_CountReasonAlways ==
    (phase = "validate" /\ ~CountInRange(q)) =>
        vresult = <<FALSE, SegmentCountReason(q)>>

\* C2 amended: whenever the segment count is outside [1,6], validate()
\* rejects; the reason is the segment-count reason when title, purpose and
\* audience are all non-empty, and otherwise the reason of the first of these
\* three that is empty.
C2_CountRejected ==
    (phase = "validate" /\ ~CountInRange(q)) =>
        /\ vresult[1] = FALSE
        /\ HeaderComplete(q) => vresult[2] = SegmentCountReason(q)
        /\ ~HeaderComplete(q) =>
               vresult[2] = (IF q.project_title = ""
                                 THEN "Project title is required"
                             ELSE IF q.sop_purpose = ""
                                 THEN "SOP purpose is required"
                             ELSE "Target audience is required")

C2_Witness ==
    /\ phase = "validate"
    /\ Len(q.segments) > 6
    /\ HeaderComplete(q)
    /\ vresult = <<FALSE, "Maximum 6 segments allowed (48 seconds total)">>

\* The reasons that name segment number n.
ReasonsNaming(n) ==
    { "Segment " \o ToString(n) \o m :
        m \in {" missing title", " missing description", " missing key action"} }

\* C3 as stated: for every segment that misses a title, a description or a
\* key action, validate() rejects with a reason naming that segment's number.
C3_NamesEverySegment ==
    phase = "validate" =>
        \A i \in 1..Len(q.segments) :
            ~SegmentComplete(q.segments[i]) =>
                /\ vresult[1] = FALSE
                /\ vresult[2] \in ReasonsNaming(q.segments[i].segment_number)

\* C3 amended: for every segment that misses a title, a description or a key
\* action, validate() rejects; the reason names that segment's number (and
\* the first text it misses) when title, purpose and audience are non-empty,
\* the segment count is within 1..6 and no earlier segment of the list misses
\* a text.
C3_NamesFirstSegment ==
    phase = "validate" =>
        \A i \in 1..Len(q.segments) :
            ~SegmentComplete(q.segments[i]) =>
                /\ vresult[1] = FALSE
                /\ ( /\ HeaderComplete(q) /\ CountInRange(q)
                     /\ \A j \in 1..(i - 1) : SegmentComplete(q.segments[j]) )
                   => /\ vresult[2] = SegmentReason(q.segments[i])
                      /\ vresult[2] \in
                             ReasonsNaming(q.segments[i].segment_number)

\* The first defective segment is named by its own number, which is not its
\* position.
C3_Witness ==
    /\ phase = "validate"
    /\ HeaderComplete(q) /\ CountInRange(q)
    /\ \E i \in 1..Len(q.segments) :
           /\ ~SegmentComplete(q.segments[i])
           /\ q.segments[i].segment_number # i
           /\ \A j \in 1..(i - 1) : SegmentComplete(q.segments[j])
           /\ vresult = <<FALSE, SegmentReason(q.segments[i])>>

(***************************************************************************)
(* Claims on the translator (SpecTranslate)                                *)
(***************************************************************************)

\* The questionnaires validate() accepts.
Accepted(qq) ==
    /\ HeaderComplete(qq) /\ CountInRange(qq)
    /\ \A i \in 1..Len(qq.segments) : SegmentComplete(qq.segments[i])

HasLine(lines, text) == \E i \in 1..Len(lines) : lines[i] = text

HasContinuityBlock(lines) ==
    /\ HasLine(lines, "CONTINUITY REQUIREMENTS:")
    /\ HasLine(lines, "- Color palette MUST be consistent with previous segment")

\* C5 as stated: a translated segment's prompt holds the continuity block
\* exactly when the segment's number is greater than 1.
C5_ContinuityByNumber ==
    /\ phase = "translate" =>
           \A k \in 1..Len(requests) :
               HasContinuityBlock(requests[k].prompt)
                   <=> q.segments[k].segment_number > 1
    /\ phase = "translate_segment" =>
           (HasContinuityBlock(tscall.prompt)
                <=> tscall.segment.segment_number > 1)

\* C5 amended: the prompt holds the continuity block exactly when the
\* segment's number is greater than 1 and a previous segment is supplied; in
\* translate_questionnaire that is every segment but the first of the list
\* whose number is greater than 1.  A segment numbered 1 never has the block.
C5_ContinuityByNumberAndPrevious ==
    /\ phase = "translate" =>
           \A k \in 1..Len(requests) :
               HasContinuityBlock(requests[k].prompt)
                   <=> (k > 1 /\ q.segments[k].segment_number > 1)
    /\ phase = "translate_segment" =>
           (HasContinuityBlock(tscall.prompt)
                <=> ( /\ tscall.previous # NoObject
                      /\ tscall.segment.segment_number > 1 ))

\* The first segment of the list is numbered above 1 and has no block; the
\* second has it.
C5_Witness ==
    /\ phase = "translate" /\ Len(requests) = 2
    /\ q.segments[1].segment_number > 1
    /\ q.segments[2].segment_number > 1
    /\ ~HasContinuityBlock(requests[1].prompt)
    /\ HasContinuityBlock(requests[2].prompt)

PresenterPhrase == "- Presenter MUST match exact appearance from Segment 1"

StrictPhrase == "- STRICT consistency: no variations from established baseline"

\* The scenario of C6: an accepted questionnaire, presenter a person,
\* consistency mode strict, at least two segments, the first two numbered 1
\* and 2, translated.
StrictPersonScenario ==
    /\ phase = "translate" /\ Accepted(q)
    /\ q.presenter_type = "person" /\ q.consistency_mode = "strict"
    /\ Len(q.segments) >= 2
    /\ q.segments[1].segment_number = 1
    /\ q.segments[2].segment_number = 2

\* C6 as stated: segment 2's prompt holds both phrases, segment 1's neither.
C6_FirstSegmentHasNeither ==
    StrictPersonScenario =>
        /\ HasLine(requests[2].prompt, PresenterPhrase)
        /\ HasLine(requests[2].prompt, StrictPhrase)
        /\ ~HasLine(requests[1].prompt, PresenterPhrase)
        /\ ~HasLine(requests[1].prompt, StrictPhrase)

\* C6 amended: segment 2's prompt holds both phrases; segment 1's prompt does
\* not hold the presenter phrase but does hold the STRICT phrase, which is
\* part of every segment's technical requirements under the strict mode.
C6_FirstSegmentHasStrictOnly ==
    StrictPersonScenario =>
        /\ HasLine(requests[2].prompt, PresenterPhrase)
        /\ HasLine(requests[2].prompt, StrictPhrase)
        /\ ~HasLine(requests[1].prompt, PresenterPhrase)
        /\ HasLine(requests[1].prompt, StrictPhrase)

\* The scenario itself: project "Demo", two segments, promotional, presenter
\* description "X".
C6_Witness ==
    /\ StrictPersonScenario
    /\ q.project_title = "Demo" /\ Len(q.segments) = 2
    /\ q.video_style = "PROMOTIONAL" /\ q.presenter_description = "X"
    /\ HasLine(requests[2].prompt, PresenterPhrase)

\* The three mode disclaimers.
Disclaimers ==
    { "- STRICT consistency: no variations from established baseline",
      "- Balanced: maintain core consistency while allowing natural variation",
      "- Creative: preserve key elements but allow creative expression" }

DifferingLines(a, b) == { i \in 1..Len(a) : a[i] # b[i] }

\* C7: the prompt of a segment and the prompt of the same segment under a
\* questionnaire that differs only in consistency_mode have the same number
\* of lines and differ in exactly one line, the mode disclaimer that closes
\* the technical-requirements block.
C7_ModeChangesOneLine ==
    phase = "translate_segment" =>
        \A m \in ConsistencyModes \ {q.consistency_mode} :
            LET other == translate_segment(
                             tscall.segment,
                             [q EXCEPT !.consistency_mode = m],
                             tscall.previous)
            IN  /\ Len(other) = Len(tscall.prompt)
                /\ \E i \in 2..Len(other) :
                       /\ DifferingLines(tscall.prompt, other) = {i}
                       /\ tscall.prompt[i] \in Disclaimers
                       /\ other[i] \in Disclaimers
                       /\ other[i - 1] = "- Professional production value"

\* A later segment with a previous one, translated under the balanced mode.
C7_Witness ==
    /\ phase = "translate_segment"
    /\ q.consistency_mode = "balanced"
    /\ tscall.previous # NoObject
    /\ tscall.segment.segment_number > 1
    /\ HasLine(tscall.prompt,
               "- Balanced: maintain core consistency while allowing natural variation")

(***************************************************************************)
(* Claim on serialization (SpecRoundTrip)                                  *)
(***************************************************************************)

\* C8: the questionnaire read back by from_json from the record to_json
\* wrote equals the original in every field, the segments, colors and
\* platforms in their order; in the record the enum fields are the members'
\* string values.
C8_RoundTrip ==
    /\ phase \in {"to_json", "from_json"} =>
           /\ record["video_style"]
                  \in {"professional", "casual", "educational", "promotional"}
           /\ \A i \in 1..Len(record["target_platforms"]) :
                  record["target_platforms"][i]
                      \in {"instagram", "tiktok", "youtube_shorts",
                           "facebook", "linkedin", "twitter"}
    /\ phase = "from_json" =>
           /\ loaded = q
           /\ Len(loaded.segments) = Len(q.segments)
           /\ \A i \in 1..Len(q.segments) : loaded.segments[i] = q.segments[i]
           /\ loaded.brand_colors = q.brand_colors
           /\ loaded.target_platforms = q.target_platforms
           /\ loaded.video_style = q.video_style

\* Two platforms, two colors and two segments, the first with every optional
\* field set and a duration other than the default, have been read back.
C8_Witness ==
    /\ phase = "from_json"
    /\ Len(q.target_platforms) = 2 /\ Len(q.brand_colors) = 2
    /\ Len(q.segments) = 2
    /\ q.segments[1].duration # DefaultDuration
    /\ q.segments[1].location # None /\ q.segments[1].text_overlay # None
    /\ q.segments[1].voiceover_script # None
    /\ Len(q.segments[1].props_needed) = 2
    /\ q.presenter_description # None
    /\ loaded.segments[1].duration = 12

(***************************************************************************)
(* Claim on validate_prompt (SpecPrompt)                                   *)
(***************************************************************************)

\* C9: validate_prompt rejects exactly the prompts that are empty or all
\* whitespace ('Prompt cannot be empty', whatever their length), shorter than
\* 10 characters or longer than 5000 characters, and accepts every other
\* prompt with (True, None); lengths 10 and 5000 are accepted, 9 and 5001
\* rejected.
C9_PromptLimits ==
    phase = "validate_prompt" =>
        LET n == prompt.lead + prompt.core + prompt.trail
            blank == prompt.core = 0
        IN  /\ presult[1] <=> (~blank /\ n >= 10 /\ n <= 5000)
            /\ presult[1] => presult[2] = None
            /\ blank => presult = <<FALSE, "Prompt cannot be empty">>
            /\ (~blank /\ n < 10) =>
                   presult = <<FALSE, "Prompt too short (minimum 10 characters)">>
            /\ (~blank /\ n > 5000) =>
                   presult = <<FALSE, "Prompt too long (maximum 5000 characters)">>
            /\ (~blank /\ n \in {10, 5000}) => presult = <<TRUE, None>>
            /\ n \in {9, 5001} => ~presult[1]

\* A prompt of exactly 5000 characters has been accepted.
C9_Witness ==
    /\ phase = "validate_prompt"
    /\ prompt.lead + prompt.core + prompt.trail = 5000
    /\ prompt.core > 0
    /\ presult = <<TRUE, None>>

(***************************************************************************)
(* Claims on the generation client (Spec)                                  *)
(***************************************************************************)

\* The last reply is a status reply that reports completion: done, no error
\* field, a video URL.
CompletionReported ==
    /\ polls > 0
    /\ reply.status = "ok" /\ reply.done /\ reply.error = "absent"
    /\ reply.videoUrl \notin {None, ""}

\* C10 as stated: as soon as a status fetch reports completion, the client
\* downloads the artifact and returns a success response, with no further
\* status fetch; on the first poll that is exactly one status fetch.
C10_CompletionReturnsSuccess ==
    /\ [](CompletionReported =>
              /\ pc \in {"downloading", "returned"}
              /\ pc = "returned" => (downloads = 1 /\ response.success))
    /\ [][(CompletionReported /\ pc = "downloading") =>
              (pc' = "returned" /\ polls' = polls)]_vars

\* C10 amended: as soon as a status fetch reports completion (done, no error
\* field, a non-empty video URL), the client attempts the download of that
\* URL and returns without any further status fetch: a success response
\* carrying the URL when the download succeeds, a failed response 'Polling
\* failed: ...' when it fails.  On the first poll that is exactly one status
\* fetch.
C10_CompletionEndsPolling ==
    /\ [](CompletionReported =>
              /\ pc \in {"downloading", "returned"}
              /\ url = reply.videoUrl
              /\ pc = "downloading" => (downloads = 0 /\ response = NoObject)
              /\ pc = "returned" =>
                     /\ downloads = 1
                     /\ fetched = "ok" =>
                            /\ response.success
                            /\ response.video_url = reply.videoUrl
                            /\ response.error = None
                     /\ fetched = "failed" =>
                            /\ ~response.success
                            /\ response.error = "Polling failed: Download error")
    /\ [][(CompletionReported /\ pc = "downloading") =>
              (pc' = "returned" /\ polls' = polls /\ downloads' = 1)]_vars
    /\ [][(pc = "polling" /\ polls = 0 /\ polls' = 1 /\ CompletionReported') =>
              pc' = "downloading"]_vars

\* Completion was reported on the first poll, the download succeeded and the
\* call returned success after that one status fetch.
C10_Witness ==
    /\ CompletionReported
    /\ polls = 1 /\ pc = "returned" /\ downloads = 1
    /\ fetched = "ok" /\ response.success

\* The last exchange was a status fetch that the service answered not-done.
NotDoneReported == polls > 0 /\ reply.status = "ok" /\ ~reply.done

\* C11: when the submission is answered with an operation id and every
\* status fetch is answered not-done, the call keeps polling up to the 60th
\* status fetch and then returns a failed response 'Generation timeout'; it
\* does not raise, and no call ever makes a 61st status fetch.
C11_TimeoutAfterSixtyPolls ==
    /\ polls <= 60
    /\ (NotDoneReported /\ polls < 60) =>
           (pc = "polling" /\ response = NoObject /\ ~raised)
    /\ (NotDoneReported /\ polls = 60) =>
           /\ pc = "returned"
           /\ ~raised
           /\ response = FailedResponse("Generation timeout")
    /\ (pc = "returned" /\ response # NoObject
            /\ response.error = "Generation timeout") =>
           (polls = 60 /\ downloads = 0 /\ posts = 1)

\* The 60th status fetch was answered not-done and the call returned the
\* timeout failure.
C11_Witness ==
    /\ NotDoneReported /\ polls = 60 /\ pc = "returned"
    /\ response = FailedResponse("Generation timeout")

\* The call has returned after a failure of the submission, of a status
\* fetch or of the download.
SubmissionFailed == polls = 0 /\ posts = 1 /\ reply.status \in TransportFailures

StatusFetchFailed == polls > 0 /\ reply.status \in TransportFailures

DownloadFailed == pc = "returned" /\ fetched = "failed"

\* C12: generate_video never raises to its caller; a failure of the
\* submission (connection failure, HTTP error status, undecodable body) or of
\* what follows it (a status fetch, reading the reply, the download) ends in
\* a returned response with success=false that carries the error text, as it
\* is on the submission path and after 'Polling failed: ' on the polling path.
C12_NeverRaises ==
    /\ ~raised
    /\ pc = "returned" => response # NoObject
    /\ SubmissionFailed =>
           /\ pc = "returned"
           /\ response = FailedResponse(ErrorText(reply.status))
    /\ StatusFetchFailed =>
           /\ pc = "returned"
           /\ response =
                  FailedResponse("Polling failed: " \o ErrorText(reply.status))
    /\ DownloadFailed =>
           /\ ~response.success
           /\ response.error \in {"Download error",
                                  "Polling failed: Download error"}

\* A submission ended in a connection failure and the call returned the
\* failed response with its text.
C12_Witness ==
    /\ SubmissionFailed /\ reply.status = "connection_error"
    /\ pc = "returned" /\ ~raised
    /\ response = FailedResponse("Connection refused")

\* C13 as stated: a failure of the download, on the synchronous path or on
\* the polling path, is raised to the caller of generate_video and not
\* turned into a failed response.
C13_DownloadFailureRaised ==
    DownloadFailed => (raised /\ response = NoObject)

\* C13 amended: a failure of the download is raised by _download_video but
\* caught by the try block around its call: generate_video returns a failed
\* response with the error text on the synchronous path and with 'Polling
\* failed: ' and the error text on the polling path, and does not raise.
C13_DownloadFailureAbsorbed ==
    DownloadFailed =>
        /\ ~raised
        /\ downloads = 1
        /\ polls = 0 => response = FailedResponse("Download error")
        /\ polls > 0 =>
               response = FailedResponse("Polling failed: Download error")

\* A download failed on the polling path and the call returned.
C13_Witness ==
    /\ DownloadFailed /\ polls > 0
    /\ response = FailedResponse("Polling failed: Download error")

\* C15: no retry at the client.  A call makes exactly one submission
\* whatever its outcome; once it has returned, failed or not, nothing more is
\* done for it (the next submission belongs to a new call); the status
\* fetches of a call only count up, one after the other; the configuration
\* and its max_retries are never touched, and whatever max_retries is, every
\* response returned has retry_count 0.
C15_NoRetry ==
    /\ [](/\ posts <= 1
          /\ pc # "idle" => posts = 1
          /\ (pc = "returned" /\ response # NoObject) =>
                 response.retry_count = 0)
    /\ [][pc = "returned" => (calls' = calls + 1 /\ posts' = 1 /\ polls' = 0)]_vars
    /\ [][pc # "returned" => (posts' = 1 /\ polls' \in {polls, polls + 1})]_vars
    /\ [][config' = config]_vars

\* With max_retries = 3, a submission failed and the call returned after its
\* one POST with retry_count 0.
C15_Witness ==
    /\ config.max_retries = 3
    /\ SubmissionFailed /\ pc = "returned"
    /\ posts = 1 /\ ~response.success /\ response.retry_count = 0

\* The last exchange was the submission and it was answered with a decoded
\* reply.
SubmissionAnswered == posts = 1 /\ polls = 0 /\ reply.status = "ok"

\* C17 as stated: a decoded reply to the submission that contains a video URL
\* leads to a download and a success response carrying that URL and the
\* local path; one that contains an operation id leads to polling; any other
\* yields the failure 'Unexpected API response format', with no download and
\* no poll.
C17_ThreeCases ==
    SubmissionAnswered =>
        /\ reply.videoUrl # None =>
               /\ pc \in {"downloading", "returned"}
               /\ pc = "returned" =>
                      /\ downloads = 1
                      /\ response =
                             SuccessResponse(OutputPath(request.scene_id),
                                             reply.videoUrl)
        /\ reply.operationId # None => (pc = "polling" /\ downloads = 0)
        /\ (reply.videoUrl = None /\ reply.operationId = None) =>
               /\ pc = "returned" /\ downloads = 0
               /\ response = FailedResponse("Unexpected API response format")

\* C17 amended: a decoded reply that contains an operation id leads to
\* polling, whether or not it also contains a video URL; one that contains a
\* video URL and no operation id leads to one download attempt of that URL,
\* and to a success response carrying the URL and the local path when the
\* download succeeds, a failed response carrying the download's error text
\* when it fails; any other reply yields the failure 'Unexpected API response
\* format' with neither a download nor a poll.
C17_OperationIdFirst ==
    SubmissionAnswered =>
        /\ reply.operationId # None =>
               (pc = "polling" /\ downloads = 0 /\ response = NoObject)
        /\ (reply.operationId = None /\ reply.videoUrl # None) =>
               /\ pc \in {"downloading", "returned"}
               /\ url = reply.videoUrl
               /\ pc = "downloading" => downloads = 0
               /\ pc = "returned" =>
                      /\ downloads = 1
                      /\ fetched = "ok" =>
                             response =
                                 SuccessResponse(OutputPath(request.scene_id),
                                                 reply.videoUrl)
                      /\ fetched = "failed" =>
                             response = FailedResponse("Download error")
        /\ (reply.videoUrl = None /\ reply.operationId = None) =>
               /\ pc = "returned" /\ downloads = 0
               /\ response = FailedResponse("Unexpected API response format")

\* A reply holding both an operation id and a video URL has led to polling.
C17_Witness ==
    /\ SubmissionAnswered
    /\ reply.operationId # None /\ reply.videoUrl = VideoUrl
    /\ pc = "polling" /\ downloads = 0

\* C18: every call follows submitted -> (sync-complete | async-pending ->
\* polling -> complete | timeout | error) -> downloaded | failed.  A status
\* fetch is made only while polling, and polling is entered only by a
\* submission answered with an operation id; a download is made only from
\* the downloading state, which is entered only by a submission answered
\* with a video URL and no operation id or by a status fetch that reported
\* completion with a video URL; a call makes at most one download; once the
\* call has returned, downloaded or failed, the next remote call is the
\* submission of another call.
C18_RequestStateMachine ==
    /\ [](/\ downloads <= 1
          /\ (pc = "returned" /\ response # NoObject) =>
                 (response.success <=> (downloads = 1 /\ fetched = "ok")))
    /\ [][polls' = polls + 1 => (pc = "polling" /\ calls' = calls)]_vars
    /\ [][(pc' = "polling" /\ pc # "polling") =>
              /\ calls' = calls + 1 /\ posts' = 1 /\ polls' = 0
              /\ reply'.status = "ok" /\ reply'.operationId # None]_vars
    /\ [][downloads' = downloads + 1 =>
              (pc = "downloading" /\ pc' = "returned" /\ calls' = calls)]_vars
    /\ [][(pc' = "downloading" /\ pc # "downloading") =>
              \/ /\ calls' = calls + 1 /\ polls' = 0
                 /\ reply'.status = "ok"
                 /\ reply'.videoUrl # None /\ reply'.operationId = None
              \/ /\ calls' = calls /\ pc = "polling"
                 /\ CompletionReported']_vars
    /\ [][pc = "returned" =>
              (calls' = calls + 1 /\ posts' = 1 /\ polls' = 0
                   /\ downloads' = 0)]_vars

\* A call went through submission, polling, completion and download, and
\* returned success.
C18_Witness ==
    /\ pc = "returned" /\ posts = 1 /\ polls > 1 /\ downloads = 1
    /\ CompletionReported /\ response.success

\* The last exchange was a status fetch answered done with an error field.
ErrorReported ==
    polls > 0 /\ reply.status = "ok" /\ reply.done /\ reply.error # "absent"

\* C19 as stated: a status reply with done=true and an error field yields a
\* failed response carrying the service-provided message, or 'Unknown error'
\* when the error has no message, with no download and no further status
\* fetch, even when the reply also carries a video URL; a reply that is not
\* done continues polling whatever else it contains.
C19_ErrorMessageReturned ==
    /\ ErrorReported =>
           /\ pc = "returned" /\ downloads = 0
           /\ ~response.success
           /\ response.error =
                  (CASE reply.error = "message" -> "Quota exceeded"
                     [] reply.error = "empty_message" -> ""
                     [] reply.error = "null_message" -> None
                     [] OTHER -> "Unknown error")
    /\ (NotDoneReported /\ polls < 60) => pc = "polling"

\* C19 amended: a status reply with done=true and an error field yields a
\* failed response, with no download and no further status fetch, even when
\* the reply also carries a video URL; the response carries the message of
\* the error when the error is an object with a message, 'Unknown error' when
\* it is an object without one, and 'Polling failed: ' with the text of the
\* exception when the error is not an object.  A reply that is not done
\* continues polling whatever else it contains (up to the 60th fetch).
C19_ErrorObjectMessageReturned ==
    /\ ErrorReported =>
           /\ pc = "returned" /\ downloads = 0 /\ ~raised
           /\ reply.error = "message" =>
                  response = FailedResponse("Quota exceeded")
           /\ reply.error = "empty_message" => response = FailedResponse("")
           /\ reply.error = "null_message" => response = FailedResponse(None)
           /\ reply.error = "no_message" =>
                  response = FailedResponse("Unknown error")
           /\ reply.error = "not_object" =>
                  response =
                      FailedResponse("Polling failed: " \o
                                     ErrorText("attribute_error"))
    /\ (NotDoneReported /\ polls < 60) =>
           (pc = "polling" /\ downloads = 0 /\ response = NoObject)

\* A reply done with an error and a video URL has ended the call in the
\* failure that carries the error's message, without a download.
C19_Witness ==
    /\ ErrorReported /\ reply.error = "message"
    /\ reply.videoUrl = OperationVideoUrl
    /\ pc = "returned" /\ downloads = 0
    /\ response = FailedResponse("Quota exceeded")

(***************************************************************************)
(* Claims on translate_questionnaire and validate() together               *)
(***************************************************************************)

\* C14: translate_questionnaire asks validate() before it translates any
\* segment.  When validate() fails, the operation raises an error whose text
\* carries the validation reason and returns no request, not even those of
\* the segments before the defective one; the Generation Client is not
\* called, so no submission, status fetch or download is made.  When
\* validate() accepts, nothing is raised and there is one request per segment.
C14_ValidateFirst ==
    phase = "translate" =>
        /\ ~validate(q)[1] =>
               /\ terror = "Invalid questionnaire: " \o validate(q)[2]
               /\ requests = <<>>
               /\ CallIdle /\ posts = 0 /\ polls = 0 /\ downloads = 0
        /\ validate(q)[1] =>
               /\ terror = None
               /\ Len(requests) = Len(q.segments)
               /\ CallIdle

\* A questionnaire whose first segment is complete and whose second is not
\* was refused as a whole: the error names segment 2 and no request exists.
C14_Witness ==
    /\ phase = "translate"
    /\ Len(q.segments) >= 2
    /\ SegmentComplete(q.segments[1]) /\ ~SegmentComplete(q.segments[2])
    /\ HeaderComplete(q) /\ CountInRange(q)
    /\ terror = "Invalid questionnaire: " \o SegmentReason(q.segments[2])
    /\ requests = <<>> /\ posts = 0

\* C16 as stated: in every questionnaire validate() accepts, each segment's
\* segment_number equals its 1-based position in the segment list.
C16_NumbersMatchPositions ==
    (phase = "validate" /\ vresult[1]) =>
        \A i \in 1..Len(q.segments) : q.segments[i].segment_number = i

(***************************************************************************)
(* Claims on the example driver (SpecDriver)                               *)
(***************************************************************************)

\* The driver has left the loop or never entered it.
DriverOutOfLoop == driver.at \in {"stopped", "done", "exited", "raised"}

\* C20: the example driver hands the requests to generate_video strictly one
\* at a time in list order.  The k-th call is given the k-th request, and is
\* made only when the k-1 requests before it have each returned success (the
\* driver holds their k-1 video paths); at most one request is under way;
\* after the first failed response no further request is handed over and no
\* further remote call is made; completion is reported only when the driver
\* holds one video path per request.
C20_SequentialUntilFailure ==
    /\ [](/\ driver.handled <= calls /\ calls <= driver.handled + 1
          /\ calls <= Len(requests)
          /\ pc \in {"polling", "downloading"} => calls = driver.handled + 1
          /\ calls > 0 => request = requests[calls]
          /\ Len(driver.videos) <= driver.handled
          /\ driver.at = "loop" => Len(driver.videos) = driver.handled
          /\ \A k \in 1..Len(driver.videos) :
                 driver.videos[k] = OutputPath(requests[k].scene_id)
          /\ driver.at = "stopped" =>
                 (~response.success /\ Len(driver.videos) = calls - 1)
          /\ driver.complete =>
                 (driver.at = "done" /\ Len(driver.videos) = Len(requests)
                      /\ calls = Len(requests) /\ response.success))
    /\ [][calls' = calls + 1 =>
              /\ driver.at = "loop"
              /\ pc \in {"idle", "returned"}
              /\ Len(driver.videos) = calls
              /\ request' = requests[calls + 1]]_vars
    /\ [][DriverOutOfLoop =>
              (calls' = calls /\ posts' = posts /\ polls' = polls
                   /\ downloads' = downloads /\ DriverOutOfLoop')]_vars

\* The first of two requests failed: the driver stopped after that one call
\* and finished without reporting completion.
C20_Witness ==
    /\ driver.at = "done" /\ ~driver.complete
    /\ Len(requests) = 2 /\ calls = 1 /\ driver.handled = 1
    /\ driver.videos = <<>> /\ ~response.success

(***************************************************************************)
(* Claims on the requests and prompts of the translator (SpecTranslate)    *)
(***************************************************************************)

\* C21: every request of translate_questionnaire carries a marker map with
\* segment_number (the segment's number), sequence_id (the project title)
\* and consistency_mode (the questionnaire's mode); it holds presenter_id,
\* always 'presenter_001', exactly when presenter_type is 'person' or
\* 'animated_character', and location_id, always 'location_001', exactly
\* when primary_location is non-empty; it holds no other key.
C21_ConsistencyMarkers ==
    phase = "translate" =>
        \A k \in 1..Len(requests) :
            LET m == requests[k].consistency_markers
            IN  /\ m.segment_number = q.segments[k].segment_number
                /\ m.sequence_id = q.project_title
                /\ m.consistency_mode = q.consistency_mode
                /\ "presenter_id" \in DOMAIN m
                       <=> q.presenter_type \in {"person", "animated_character"}
                /\ "presenter_id" \in DOMAIN m => m.presenter_id = "presenter_001"
                /\ "location_id" \in DOMAIN m
                       <=> q.primary_location \notin {"", None}
                /\ "location_id" \in DOMAIN m => m.location_id = "location_001"
                /\ DOMAIN m \subseteq
                       {"segment_number", "sequence_id", "consistency_mode",
                        "presenter_id", "location_id"}

\* An animated character without a primary location: both requests carry
\* the presenter id and no location id.
C21_Witness ==
    /\ phase = "translate" /\ Len(requests) = 2
    /\ q.presenter_type = "animated_character" /\ q.primary_location = ""
    /\ \A k \in 1..2 :
           /\ requests[k].consistency_markers.presenter_id = "presenter_001"
           /\ "location_id" \notin DOMAIN requests[k].consistency_markers

\* The durations a segment is given in place of its own.
OtherDurations == {1, DefaultDuration, 12, 60}

\* C22: the prompt does not depend on the segment's duration.  Whatever the
\* duration of a segment (and of the previous one), translate_segment
\* returns the same prompt; its header states '8-second' and its technical
\* block 'Exactly 8 seconds duration'; the request's duration field is the
\* segment's own duration.
C22_PromptIgnoresDuration ==
    /\ phase = "translate_segment" =>
           /\ \A d \in OtherDurations :
                  translate_segment([tscall.segment EXCEPT !.duration = d], q,
                                    tscall.previous) = tscall.prompt
           /\ tscall.prompt[1] =
                  "[8-second video segment - " \o tscall.segment.title \o "]"
           /\ HasLine(tscall.prompt, "- Exactly 8 seconds duration")
    /\ phase = "translate" =>
           \A k \in 1..Len(requests) :
               /\ requests[k].duration = q.segments[k].duration
               /\ requests[k].prompt[1] =
                      "[8-second video segment - "
                          \o q.segments[k].title \o "]"
               /\ HasLine(requests[k].prompt, "- Exactly 8 seconds duration")

\* A segment of 12 seconds was translated: its request asks for 12 seconds
\* and its prompt for 8.
C22_Witness ==
    /\ phase = "translate" /\ Len(requests) = 2
    /\ q.segments[2].duration = 12 /\ requests[2].duration = 12
    /\ requests[2].prompt[1] = "[8-second video segment - Intro]"
    /\ HasLine(requests[2].prompt, "- Exactly 8 seconds duration")

\* The line that closes the presenter section of a person, and of an
\* animated character.
PersonSection ==
    "Presenter position: Center frame, professional posture, engaging with camera"

CharacterSection ==
    "Character animation: Smooth, professional quality, expressive"

HasPresenterSection(lines) ==
    HasLine(lines, PersonSection) \/ HasLine(lines, CharacterSection)

\* The prompts translated in the current state, each with its segment.
Translated ==
    IF phase = "translate"
        THEN { [segment |-> q.segments[k], prompt |-> requests[k].prompt] :
                 k \in 1..Len(requests) }
    ELSE IF phase = "translate_segment"
        THEN { [segment |-> tscall.segment, prompt |-> tscall.prompt] }
    ELSE {}

\* C23 as stated: the prompt holds a presenter section exactly when
\* presenter_type is not 'none', with the description line and the clothing
\* line when those fields are set.
C23_PresenterUnlessNone ==
    \A t \in Translated :
        /\ HasPresenterSection(t.prompt) <=> q.presenter_type # "none"
        /\ (q.presenter_type # "none" /\ Truthy(q.presenter_description)) =>
               \/ HasLine(t.prompt, "Presenter: " \o q.presenter_description)
               \/ HasLine(t.prompt,
                          "Animated Character: " \o q.presenter_description)
        /\ (q.presenter_type # "none" /\ Truthy(q.presenter_clothing)) =>
               HasLine(t.prompt, "Clothing: " \o q.presenter_clothing)

\* C23 amended: the prompt holds a presenter section exactly when
\* presenter_type is 'person' or 'animated_character'; for 'none' and for
\* any other kind, 'text_only' among them, it holds none.  For a person the
\* section has the description line and the clothing line when those fields
\* are set; for an animated character it has the description line when set
\* and never a clothing line.
C23_PresenterForPersonOrCharacter ==
    \A t \in Translated :
        /\ HasLine(t.prompt, PersonSection) <=> q.presenter_type = "person"
        /\ HasLine(t.prompt, CharacterSection)
               <=> q.presenter_type = "animated_character"
        /\ q.presenter_type \in {"none", "text_only"} =>
               ~HasPresenterSection(t.prompt)
        /\ \A d \in {"X"} :
               /\ HasLine(t.prompt, "Presenter: " \o d)
                      <=> (q.presenter_type = "person"
                               /\ q.presenter_description = d)
               /\ HasLine(t.prompt, "Animated Character: " \o d)
                      <=> (q.presenter_type = "animated_character"
                               /\ q.presenter_description = d)
        /\ \A c \in {"blue suit"} :
               HasLine(t.prompt, "Clothing: " \o c)
                   <=> (q.presenter_type = "person"
                            /\ q.presenter_clothing = c)

\* A 'text_only' questionnaire with a description and clothing was
\* translated and its prompts hold no presenter section.
C23_Witness ==
    /\ phase = "translate" /\ Len(requests) = 2
    /\ q.presenter_type = "text_only"
    /\ q.presenter_description = "X" /\ q.presenter_clothing = "blue suit"
    /\ \A k \in 1..2 : ~HasPresenterSection(requests[k].prompt)

\* The 'Location:' lines of a prompt, by the locations the inputs use.
LocationLines(lines) ==
    { i \in 1..Len(lines) :
        lines[i] \in { "Location: " \o l : l \in {"lab", "clean_modern_office"} } }

\* C24: a prompt has at most one 'Location:' line (the continuity text
\* apart); it shows the segment's location when that is set, otherwise the
\* questionnaire's primary_location when that is non-empty, and otherwise
\* there is no such line.
C24_SegmentLocationFirst ==
    \A t \in Translated :
        /\ Cardinality(LocationLines(t.prompt)) <= 1
        /\ Truthy(t.segment.location) =>
               /\ HasLine(t.prompt, "Location: " \o t.segment.location)
               /\ Cardinality(LocationLines(t.prompt)) = 1
        /\ (~Truthy(t.segment.location) /\ Truthy(q.primary_location)) =>
               /\ HasLine(t.prompt, "Location: " \o q.primary_location)
               /\ Cardinality(LocationLines(t.prompt)) = 1
        /\ (~Truthy(t.segment.location) /\ ~Truthy(q.primary_location)) =>
               LocationLines(t.prompt) = {}

\* A segment with its own location in a questionnaire that has a primary
\* one: the prompt shows the segment's and not the questionnaire's.
C24_Witness ==
    /\ phase = "translate_segment"
    /\ tscall.segment.location = "lab"
    /\ q.primary_location = "clean_modern_office"
    /\ HasLine(tscall.prompt, "Location: lab")
    /\ ~HasLine(tscall.prompt, "Location: clean_modern_office")

C26_PollFailureEndsPolling ==
    StatusFetchFailed =>
        /\ pc = "returned" /\ ~raised /\ downloads = 0
        /\ ~response.success
        /\ response.error \in
               { "Polling failed: " \o ErrorText(f) : f \in TransportFailures }
        /\ response.error = "Polling failed: " \o ErrorText(reply.status)
        /\ response.error # "Generation timeout"

\* The 60th status fetch met an HTTP error: the failure returned is the
\* polling failure and not the timeout.
C26_Witness ==
    /\ StatusFetchFailed /\ polls = 60 /\ reply.status = "http_error"
    /\ pc = "returned"
    /\ response = FailedResponse("Polling failed: 500 Server Error")

\* C27: with every HTTP call returning or failing, a generate_video call
\* that is polling or downloading comes to its return, with a response and
\* without raising; and whatever the replies of the service, a call never
\* makes more than 60 status fetches.
C27_CallTerminates ==
    /\ [](polls <= 60)
    /\ [](pc = "returned" => (response # NoObject /\ ~raised))
    /\ (pc \in {"polling", "downloading"}) ~> (pc = "returned")

\* A call whose 60th status fetch reported completion has downloaded the
\* video and returned.
C27_Witness ==
    /\ pc = "returned" /\ polls = 60 /\ CompletionReported
    /\ downloads = 1 /\ response # NoObject

\* The last exchange was a submission answered with both an operation id and
\* a video URL.
BothReported ==
    SubmissionAnswered /\ reply.operationId # None /\ reply.videoUrl # None

\* C28: a reply to the submission that holds both an operation id and a video
\* URL sends the call polling; no download of the reply's URL is started,
\* and a call that has polled never downloads or returns the URL of its
\* submission reply: from polling on, the only thing done is the next status
\* fetch, and the URL downloaded is the one of a status reply.
C28_OperationIdPrecedence ==
    /\ [](BothReported =>
              /\ pc = "polling" /\ url = None
              /\ downloads = 0 /\ response = NoObject)
    /\ [](polls > 0 =>
              /\ url \in {None, OperationVideoUrl}
              /\ (response # NoObject /\ response.success) =>
                     response.video_url = OperationVideoUrl)
    /\ [][pc = "polling" =>
              (polls' = polls + 1 /\ downloads' = 0 /\ calls' = calls)]_vars

\* A submission of the second call was answered with an operation id and a
\* non-empty video URL, and the call is polling.
C28_Witness ==
    /\ BothReported /\ reply.videoUrl = VideoUrl /\ calls = 2
    /\ pc = "polling" /\ url = None /\ downloads = 0

\* The last exchange was a status fetch answered done with neither an error
\* field nor a video URL (absent or empty).
DoneWithoutUrl ==
    /\ polls > 0 /\ reply.status = "ok" /\ reply.done
    /\ reply.error = "absent" /\ reply.videoUrl \in {None, ""}

C30_WellFormedResponse ==
    (pc = "returned" /\ response # NoObject) =>
        /\ response.success =>
               /\ downloads = 1 /\ fetched = "ok"
               /\ response.video_path \notin {None, ""}
               /\ response.video_url \notin {None, ""}
               /\ response.error = None
        /\ ~response.success =>
               /\ response.error \notin {None, ""}
               /\ response.video_path = None
               /\ response.video_url = None

====
